---- MODULE Spec2Model ----
(***************************************************************************)
(* Model of Roster_CreateExcel.py: the CSV loader                          *)
(* (load_employees_and_leaves), the code normaliser (norm_code), the day   *)
(* generator (month_days) and the shift engine (build_month_grid).         *)
(*                                                                         *)
(* Representation.                                                         *)
(*   - A Python str is a sequence of one-character strings, so that        *)
(*     strip / replace / upper are computed character by character.        *)
(*   - A datetime.date is its proleptic Gregorian ordinal (toordinal()),   *)
(*     the integer CPython itself does date arithmetic on.  A date that    *)
(*     cannot be built (ValueError / OverflowError) is the value NoDate.   *)
(*   - A diagnostic (level, f-string message) is a record holding the      *)
(*     level, the message template and the values interpolated into it.    *)
(***************************************************************************)
EXTENDS Integers, Sequences, FiniteSets, TLC

VARIABLES
    pc,           \* control position of the run
    year, month,  \* target year and month (arguments of every function)
    title_row,    \* cells of the title row from index 6 on (row 1 of the CSV)
    date_cols,    \* load_employees_and_leaves: idx -> date
    ndata,        \* number of data rows in the CSV (len(rows) - 2)
    data_rows,    \* data rows consumed so far, in file order
    employees,    \* load_employees_and_leaves: employees
    seen_names,   \* load_employees_and_leaves: seen_names
    issues,       \* load_employees_and_leaves: issues
    raised,       \* exception that ended the run, or "none"
    g_only, bg_rotate, abc_order,   \* arguments of build_month_grid
    start_bg_arg, \* argument start_bg of build_month_grid, as passed
    start_bg,     \* build_month_grid: start_bg after the sanity check
    row,          \* load_employees_and_leaves: r, the data row last read
    days,         \* build_month_grid: days
    grid,         \* build_month_grid: grid
    grid_issues,  \* build_month_grid: issues
    md_cur, md_stop, md_out,   \* month_days: cur, stop, out
    nc_x, nc_once, nc_twice    \* norm_code: an input, its image, the image of its image

vars == <<pc, year, month, title_row, date_cols, ndata, data_rows, employees,
          seen_names, issues, raised, g_only, bg_rotate, abc_order,
          start_bg_arg, start_bg, row, days, grid, grid_issues, md_cur, md_stop, md_out, nc_x, nc_once, nc_twice>>

loadVars  == <<title_row, date_cols, ndata, data_rows, row, employees, seen_names, issues>>
buildVars == <<g_only, bg_rotate, abc_order, start_bg_arg, start_bg, days, grid, grid_issues>>
mdVars    == <<md_cur, md_stop, md_out>>
ncVars    == <<nc_x, nc_once, nc_twice>>

-----------------------------------------------------------------------------
(* datetime.date, as used by the source                                     *)

MAXYEAR == 9999
MAXORDINAL == 3652059
NoDate == 0 - 1

DAYS_IN_MONTH == <<31, 28, 31, 30, 31, 30, 31, 31, 30, 31, 30, 31>>
DAYS_BEFORE_MONTH == <<0, 31, 59, 90, 120, 151, 181, 212, 243, 273, 304, 334>>

is_leap(y) == y % 4 = 0 /\ (y % 100 # 0 \/ y % 400 = 0)

days_in_month(y, m) == IF m = 2 /\ is_leap(y) THEN 29 ELSE DAYS_IN_MONTH[m]

days_before_year(y) ==
    (y - 1) * 365 + ((y - 1) \div 4) - ((y - 1) \div 100) + ((y - 1) \div 400)

days_before_month(y, m) ==
    DAYS_BEFORE_MONTH[m] + (IF m > 2 /\ is_leap(y) THEN 1 ELSE 0)

\* date(y, m, d): ValueError (NoDate) unless 1 <= y <= MAXYEAR, 1 <= m <= 12
\* and 1 <= d <= days in that month.
MkDate(y, m, d) ==
    IF y >= 1 /\ y <= MAXYEAR /\ m >= 1 /\ m <= 12
       /\ d >= 1 /\ d <= days_in_month(y, m)
    THEN days_before_year(y) + days_before_month(y, m) + d
    ELSE NoDate

\* d + timedelta(days=n): OverflowError (NoDate) outside date.min .. date.max.
DatePlus(d, n) ==
    IF d = NoDate \/ d + n < 1 \/ d + n > MAXORDINAL THEN NoDate ELSE d + n

\* d.weekday(): Monday = 0 .. Sunday = 6.
weekday(d) == (d + 6) % 7

monday_of_week(d) == DatePlus(d, 0 - weekday(d))

-----------------------------------------------------------------------------
(* str, as used by the source                                               *)

EmptyStr == <<>>

LowerLetters == <<"a","b","c","d","e","f","g","h","i","j","k","l","m",
                  "n","o","p","q","r","s","t","u","v","w","x","y","z">>
UpperLetters == <<"A","B","C","D","E","F","G","H","I","J","K","L","M",
                  "N","O","P","Q","R","S","T","U","V","W","X","Y","Z">>

\* The characters str.strip() removes that occur in the model: space and tab.
IsSpace(c) == c \in {" ", "\t"}

RECURSIVE LStrip(_)
LStrip(s) == IF s # <<>> /\ IsSpace(Head(s)) THEN LStrip(Tail(s)) ELSE s

RECURSIVE RStrip(_)
RStrip(s) ==
    IF s # <<>> /\ IsSpace(s[Len(s)]) THEN RStrip(SubSeq(s, 1, Len(s) - 1)) ELSE s

\* x.strip()
Strip(s) == RStrip(LStrip(s))

\* s.replace(" ", ""): removes the space character only, a tab stays.
RemoveSpaces(s) == SelectSeq(s, LAMBDA c : c # " ")

\* upper() of one character: a string, since the German sharp s (the
\* character written "sz" here) becomes the two characters "SS".
UpperChar(c) ==
    IF c = "sz" THEN <<"S", "S">>
    ELSE IF \E i \in 1..26 : LowerLetters[i] = c
         THEN <<UpperLetters[CHOOSE i \in 1..26 : LowerLetters[i] = c]>>
         ELSE <<c>>

RECURSIVE Upper(_)
Upper(s) == IF s = <<>> THEN <<>> ELSE UpperChar(Head(s)) \o Upper(Tail(s))

-----------------------------------------------------------------------------
(* norm_code                                                                *)

CODE_A == <<"A">>
CODE_B == <<"B">>
CODE_C == <<"C">>
CODE_G == <<"G">>
CODE_WO == <<"W","O">>
CODE_HO == <<"H","O">>
CODE_COHO == <<"C","O","-","H","O">>
CODE_LEAVE == <<"L","e","a","v","e">>
CODE_ADLEAVE == <<"A","D","-","L","e","a","v","e">>

COHO_VARIANTS ==
    { <<"C","O","-","H","O">>, <<"C","O","H","O">>, <<"C","O","-"," ","H","O">>,
      RemoveSpaces(<<"C","O"," ","-","H","O">>),
      RemoveSpaces(<<"C","O"," ","-"," ","H","O">>) }

\* The AD-Leave spellings without the hyphenated one the function returns.
ADLEAVE_VARIANTS_NoCanonical == { <<"A","D","L","E","A","V","E">> }

ADLEAVE_VARIANTS ==
    { <<"A","D","-","L","E","A","V","E">>, <<"A","D","L","E","A","V","E">>,
      RemoveSpaces(<<"A","D","-"," ","L","E","A","V","E">>) }

WO_VARIANTS ==
    { <<"W","E","E","K","O","F","F">>, <<"W","E","E","K","-","O","F","F">>,
      <<"O","F","F">> }

HO_VARIANTS == { <<"H","O","L","I","D","A","Y">> }

STANDARD_CODES ==
    { <<"A">>, <<"B">>, <<"C">>, <<"G">>, <<"W","O">>, <<"H","O">>,
      <<"L","E","A","V","E">> }

norm_code(x) ==
    IF x = <<>> THEN EmptyStr
    ELSE IF Strip(x) = <<>> THEN EmptyStr
    ELSE LET s == Upper(RemoveSpaces(Strip(x)))
         IN  IF s \in COHO_VARIANTS THEN CODE_COHO
             ELSE IF s \in ADLEAVE_VARIANTS THEN CODE_ADLEAVE
             ELSE IF s \in WO_VARIANTS THEN CODE_WO
             ELSE IF s \in HO_VARIANTS THEN CODE_HO
             ELSE IF s \in STANDARD_CODES
                  THEN (IF s = <<"L","E","A","V","E">> THEN CODE_LEAVE ELSE s)
             ELSE s

-----------------------------------------------------------------------------
(* month_days                                                               *)

\* start = date(year, month, 1)
MonthStart(y, m) == MkDate(y, m, 1)

\* stop = date(year + (month == 12), (month % 12) + 1, 1) - timedelta(days=1)
MonthStop(y, m) ==
    DatePlus(MkDate(y + (IF m = 12 THEN 1 ELSE 0), (m % 12) + 1, 1), 0 - 1)

\* The value standing for "month_days raised instead of returning".
NoDays == <<NoDate>>

\* while cur <= stop: out.append(cur); cur += timedelta(days=1)
RECURSIVE MonthDaysLoop(_, _, _)
MonthDaysLoop(cur, stop, out) ==
    IF cur <= stop
    THEN IF DatePlus(cur, 1) = NoDate THEN NoDays
         ELSE MonthDaysLoop(DatePlus(cur, 1), stop, Append(out, cur))
    ELSE out

\* month_days(year, month) as a whole: the list returned, or NoDays.
month_days(y, m) ==
    IF MonthStart(y, m) = NoDate \/ MonthStop(y, m) = NoDate THEN NoDays
    ELSE MonthDaysLoop(MonthStart(y, m), MonthStop(y, m), <<>>)

\* The same function, one loop iteration per step.
MonthDaysCall ==
    /\ pc = "md_call"
    /\ IF MonthStart(year, month) = NoDate \/ MonthStop(year, month) = NoDate
       THEN /\ pc' = "raised"
            /\ raised' = "ValueError"
            /\ UNCHANGED mdVars
       ELSE /\ pc' = "md_loop"
            /\ md_cur' = MonthStart(year, month)
            /\ md_stop' = MonthStop(year, month)
            /\ md_out' = <<>>
            /\ UNCHANGED raised
    /\ UNCHANGED <<year, month, loadVars, buildVars, ncVars>>

MonthDaysStep ==
    /\ pc = "md_loop"
    /\ md_cur <= md_stop
    /\ md_out' = Append(md_out, md_cur)
    /\ IF DatePlus(md_cur, 1) = NoDate
       THEN /\ pc' = "raised"
            /\ raised' = "OverflowError"
            /\ UNCHANGED md_cur
       ELSE /\ md_cur' = DatePlus(md_cur, 1)
            /\ UNCHANGED <<pc, raised>>
    /\ UNCHANGED <<year, month, md_stop, loadVars, buildVars, ncVars>>

MonthDaysReturn ==
    /\ pc = "md_loop"
    /\ ~(md_cur <= md_stop)
    /\ pc' = "md_done"
    /\ days' = md_out
    /\ UNCHANGED <<year, month, raised, mdVars, loadVars, ncVars,
                   g_only, bg_rotate, abc_order, start_bg_arg, start_bg,
                   grid, grid_issues>>

-----------------------------------------------------------------------------
(* load_employees_and_leaves                                                *)

MONTH_ABBR == <<"Jan","Feb","Mar","Apr","May","Jun",
                "Jul","Aug","Sep","Oct","Nov","Dec">>

\* A title cell, after (lbl or "").strip(): empty, a day-month label such as
\* 01-Jan (its two fields), or any other text.
BlankLabel == [kind |-> "blank", dd |-> 0, mon |-> ""]
TextLabel == [kind |-> "text", dd |-> 0, mon |-> ""]
DayMonLabel(d, m) == [kind |-> "daymon", dd |-> d, mon |-> MONTH_ABBR[m]]

\* %b: the month number of an abbreviation.
MonthOfAbbr(a) == CHOOSE m \in 1..12 : MONTH_ABBR[m] = a

\* datetime.strptime(f"{lbl}-{year}", "%d-%b-%Y").date(), None on any exception.
ParseLabel(lbl, y) ==
    IF lbl.kind = "daymon" THEN MkDate(y, MonthOfAbbr(lbl.mon), lbl.dd) ELSE NoDate

\* date_cols: the title cells from index 6 on that are not blank, parse, and
\* fall in the target month.  title[k] is the cell at index 5 + k.
DateCols(title, y, m) ==
    LET keep == { i \in 6..(5 + Len(title)) :
                    /\ title[i - 5].kind # "blank"
                    /\ ParseLabel(title[i - 5], y) # NoDate
                    /\ MonthOfAbbr(title[i - 5].mon) = m }
    IN  [i \in keep |-> ParseLabel(title[i - 5], y)]

SetMax(S) == CHOOSE x \in S : \A y \in S : y <= x

\* need_cols = max(date_cols.keys(), default=5)
NeedCols(dc) == IF DOMAIN dc = {} THEN 5 ELSE SetMax(DOMAIN dc)

\* not any(r): a cell counts unless it is the empty string.
NoCellTruthy(r) == ~(\E i \in 1..Len(r) : r[i] # <<>>)

\* The padding with one cell too few: [""] * (need_cols - len(r)).
PadRow_OneShort(r, need) ==
    IF Len(r) <= need THEN r \o [i \in 1..(need - Len(r)) |-> EmptyStr] ELSE r

\* if len(r) <= need_cols: r = list(r) + [""] * (need_cols + 1 - len(r))
PadRow(r, need) ==
    IF Len(r) <= need THEN r \o [i \in 1..(need + 1 - Len(r)) |-> EmptyStr] ELSE r

\* r[i], 0-based.
InRange(r, i) == i >= 0 /\ i < Len(r)
Cell(r, i) == r[i + 1]

\* leaves: for ci, d in date_cols.items(): code = norm_code(r[ci]);
\* if code: leaves[d] = code.  Columns in ascending insertion order, a later
\* column with the same date overwrites an earlier one.
RECURSIVE LeavesFrom(_, _, _, _)
LeavesFrom(r, dc, cols, acc) ==
    IF cols = {} THEN acc
    ELSE LET ci == CHOOSE c \in cols : \A o \in cols : c <= o
             code == norm_code(Cell(r, ci))
             next == IF code # <<>>
                     THEN [d \in (DOMAIN acc) \cup {dc[ci]} |->
                              IF d = dc[ci] THEN code ELSE acc[d]]
                     ELSE acc
         IN  LeavesFrom(r, dc, cols \ {ci}, next)

EmptyLeaves == [d \in {} |-> EmptyStr]

\* seen_names.add(name)
\* seen_names left as it was.
SeenAfter_NotAdded(seen, name) == seen

SeenAfter(seen, name) == seen \cup {name}

Issue(lvl, m, n, rn) == [level |-> lvl, msg |-> m, name |-> n, row |-> rn]

\* Lines 126-153: read the file, check its shape, build date_cols.
LoadOpen ==
    /\ pc = "load_call"
    /\ IF ndata + 2 < 3
       THEN /\ pc' = "raised"
            /\ raised' = "ValueError"
            /\ UNCHANGED <<date_cols, issues>>
       ELSE /\ pc' = "load_rows"
            /\ date_cols' = DateCols(title_row, year, month)
            /\ issues' = IF DOMAIN DateCols(title_row, year, month) = {}
                         THEN Append(issues,
                                     Issue("ERROR", "No date columns in title row matched",
                                           EmptyStr, 0))
                         ELSE issues
            /\ UNCHANGED raised
    /\ UNCHANGED <<year, month, title_row, ndata, data_rows, row, employees,
                   seen_names, buildVars, mdVars, ncVars>>

\* Lines 158-193: one iteration of the loop over data_rows, on the row r.
LoadRow(r) ==
    /\ pc = "load_rows"
    /\ Len(data_rows) < ndata
    /\ data_rows' = Append(data_rows, r)
    /\ LET rnum == Len(data_rows) + 3
           rp   == PadRow(r, NeedCols(date_cols))
           name == Strip(Cell(rp, 1))
       IN  IF NoCellTruthy(r)
           THEN /\ row' = r
                /\ UNCHANGED <<pc, raised, employees, seen_names, issues>>
           ELSE /\ row' = rp
                /\ IF ~(\A i \in 0..5 : InRange(rp, i))
                   THEN /\ pc' = "raised"
                        /\ raised' = "IndexError"
                        /\ UNCHANGED <<employees, seen_names, issues>>
                   ELSE IF name = <<>>
                   THEN /\ issues' = Append(issues,
                               Issue("WARNING", "empty Associate Name -> skipped",
                                     EmptyStr, rnum))
                        /\ UNCHANGED <<pc, raised, employees, seen_names>>
                   ELSE IF ~(\A ci \in DOMAIN date_cols : InRange(rp, ci))
                   THEN /\ pc' = "raised"
                        /\ raised' = "IndexError"
                        /\ issues' = IF name \in seen_names
                                     THEN Append(issues,
                                            Issue("WARNING", "Duplicate associate name",
                                                  name, rnum))
                                     ELSE issues
                        /\ seen_names' = SeenAfter(seen_names, name)
                        /\ UNCHANGED employees
                   ELSE /\ issues' = IF name \in seen_names
                                     THEN Append(issues,
                                            Issue("WARNING", "Duplicate associate name",
                                                  name, rnum))
                                     ELSE issues
                        /\ seen_names' = SeenAfter(seen_names, name)
                        /\ employees' = Append(employees,
                              [sl           |-> Strip(Cell(rp, 0)),
                               name         |-> name,
                               gender       |-> Strip(Cell(rp, 2)),
                               reporting_to |-> Strip(Cell(rp, 3)),
                               support      |-> Strip(Cell(rp, 4)),
                               location     |-> Strip(Cell(rp, 5)),
                               leaves       |-> LeavesFrom(rp, date_cols,
                                                           DOMAIN date_cols, EmptyLeaves)])
                        /\ UNCHANGED <<pc, raised>>
    /\ UNCHANGED <<year, month, title_row, date_cols, ndata, buildVars, mdVars, ncVars>>

\* Lines 195-197: after the last data row.
LoadReturn ==
    /\ pc = "load_rows"
    /\ Len(data_rows) = ndata
    /\ pc' = "load_done"
    /\ issues' = IF employees = <<>>
                 THEN Append(issues, Issue("ERROR", "No employees parsed from CSV",
                                           EmptyStr, 0))
                 ELSE issues
    /\ UNCHANGED <<year, month, title_row, date_cols, ndata, data_rows, row,
                   employees, seen_names, raised, buildVars, mdVars, ncVars>>

-----------------------------------------------------------------------------
(* build_month_grid                                                         *)

\* Code point of a character, for the order sorted() puts names in.
CharRank(c) ==
    IF \E i \in 1..26 : UpperLetters[i] = c
    THEN 64 + (CHOOSE i \in 1..26 : UpperLetters[i] = c)
    ELSE IF \E i \in 1..26 : LowerLetters[i] = c
    THEN 96 + (CHOOSE i \in 1..26 : LowerLetters[i] = c)
    ELSE IF c = "\t" THEN 9
    ELSE IF c = " " THEN 32
    ELSE IF c = "-" THEN 45
    ELSE IF c = "1" THEN 49
    ELSE 223

RECURSIVE StrLess(_, _)
StrLess(a, b) ==
    IF b = <<>> THEN FALSE
    ELSE IF a = <<>> THEN TRUE
    ELSE IF CharRank(Head(a)) # CharRank(Head(b))
         THEN CharRank(Head(a)) < CharRank(Head(b))
         ELSE StrLess(Tail(a), Tail(b))

\* sorted(S) for a set of names.
RECURSIVE Sorted(_)
Sorted(S) ==
    IF S = {} THEN <<>>
    ELSE LET lo == CHOOSE x \in S : \A y \in S \ {x} : StrLess(x, y)
         IN  <<lo>> \o Sorted(S \ {lo})

\* emp_names = {e["name"] for e in employees}
EmpNames(emps) == { emps[i].name : i \in 1..Len(emps) }

\* for s_name in sorted(names - emp_names): issues.append(("WARNING", ...))
\* The loop over sorted(names & emp_names) instead.
UnmatchedWarnings_Intersected(m, names, emp_names) ==
    [i \in 1..Cardinality(names \cap emp_names) |->
        Issue("WARNING", m, Sorted(names \cap emp_names)[i], 0)]

UnmatchedWarnings(m, names, emp_names) ==
    [i \in 1..Cardinality(names \ emp_names) |->
        Issue("WARNING", m, Sorted(names \ emp_names)[i], 0)]

\* start_bg = start_bg.upper(); if start_bg not in {"B","G"}: start_bg = "B"
SaneStartBg(sb) == IF Upper(sb) \in {CODE_B, CODE_G} THEN Upper(sb) ELSE CODE_B

\* d.weekday() >= 5
\* d.weekday() > 5 instead.
IsWeekend_SundayOnly(d) == weekday(d) > 5

IsWeekend(d) == weekday(d) >= 5

\* rel_week = (monday_of_week(d) - base_monday).days // 7,
\* base_monday = monday_of_week(days[0])
\* Weeks counted from day 1 of the month instead of from its Monday.
RelWeek_FromDayOne(d, first) == (d - first) \div 7

RelWeek(d, first) == (monday_of_week(d) - monday_of_week(first)) \div 7

\* the B/G alternation, lines 242-245
\* The alternation with the two sides exchanged.
BGBase_SidesSwapped(rel_week, sb) ==
    IF sb = CODE_B
    THEN (IF rel_week % 2 = 0 THEN CODE_G ELSE CODE_B)
    ELSE (IF rel_week % 2 = 0 THEN CODE_B ELSE CODE_G)

BGBase(rel_week, sb) ==
    IF sb = CODE_B
    THEN (IF rel_week % 2 = 0 THEN CODE_B ELSE CODE_G)
    ELSE (IF rel_week % 2 = 0 THEN CODE_G ELSE CODE_B)

\* base, lines 233-249
BaseCode(name, d) ==
    IF IsWeekend(d) THEN CODE_WO
    ELSE IF name \in g_only THEN CODE_G
    ELSE IF name \in bg_rotate THEN BGBase(RelWeek(d, days[1]), start_bg)
    ELSE abc_order[(RelWeek(d, days[1]) % 3) + 1]

\* code = emp["leaves"].get(d, base)
\* A leave replacing a shift code only, not WO.
LeaveOrBase_WeekdaysOnly(leaves, d, base) ==
    IF d \in DOMAIN leaves /\ base # CODE_WO THEN leaves[d] ELSE base

LeaveOrBase(leaves, d, base) ==
    IF d \in DOMAIN leaves THEN leaves[d] ELSE base

\* row_codes of one employee, lines 231-252
RowCodes(emp) ==
    [j \in 1..Len(days) |-> LeaveOrBase(emp.leaves, days[j], BaseCode(emp.name, days[j]))]

\* Lines 213-229: the call, with its arguments, up to the empty grid.
BuildCall(g, bg, sb, abc) ==
    /\ pc = "load_done"
    /\ g_only' = g
    /\ bg_rotate' = bg
    /\ start_bg_arg' = sb
    /\ abc_order' = abc
    /\ IF month_days(year, month) = NoDays
       THEN /\ pc' = "raised"
            /\ raised' = "ValueError"
            /\ UNCHANGED <<days, start_bg, grid, grid_issues>>
       ELSE /\ pc' = "build_rows"
            /\ days' = month_days(year, month)
            /\ start_bg' = SaneStartBg(sb)
            /\ grid_issues' =
                 (IF Upper(sb) \in {CODE_B, CODE_G} THEN <<>>
                  ELSE <<Issue("INFO", "start_bg not in {B,G}; defaulted to B",
                               EmptyStr, 0)>>)
                 \o UnmatchedWarnings("G-only name not in CSV", g, EmpNames(employees))
                 \o UnmatchedWarnings("B/G-rotate name not in CSV", bg,
                                      EmpNames(employees))
            /\ grid' = <<>>
            /\ UNCHANGED raised
    /\ UNCHANGED <<year, month, loadVars, mdVars, ncVars>>

\* Lines 230-253: one iteration of the loop over employees.
BuildRow ==
    /\ pc = "build_rows"
    /\ Len(grid) < Len(employees)
    /\ grid' = Append(grid, RowCodes(employees[Len(grid) + 1]))
    /\ UNCHANGED <<pc, year, month, raised, loadVars, mdVars, ncVars,
                   g_only, bg_rotate, abc_order, start_bg_arg, start_bg,
                   days, grid_issues>>

\* Line 254.
BuildReturn ==
    /\ pc = "build_rows"
    /\ Len(grid) = Len(employees)
    /\ pc' = "build_done"
    /\ UNCHANGED <<year, month, raised, loadVars, buildVars, mdVars, ncVars>>

-----------------------------------------------------------------------------
(* norm_code applied once and twice                                         *)

Normalize ==
    /\ pc = "nc_call"
    /\ nc_once' = norm_code(nc_x)
    /\ pc' = "nc_once"
    /\ UNCHANGED <<year, month, raised, loadVars, buildVars, mdVars, nc_x, nc_twice>>

NormalizeAgain ==
    /\ pc = "nc_once"
    /\ nc_twice' = norm_code(nc_once)
    /\ pc' = "nc_twice"
    /\ UNCHANGED <<year, month, raised, loadVars, buildVars, mdVars, nc_x, nc_once>>

-----------------------------------------------------------------------------
(* Inputs                                                                   *)

MaxStrLen == 3
MaxRows == 2
MaxGridRows == 2

\* norm_code: the spellings the source names, in several cases and spacings,
\* some custom codes, and every string of at most MaxStrLen characters over
\* NormAlphabet.
KnownInputs ==
    {
      <<"c","o"," ","-"," ","h","o">>, <<"C","o","-","H","o">>, <<"c","o","h","o">>, <<" ","C","O","-"," ","H","O"," ">>,
      <<"C","O"," ","-","H","O">>, <<"C","O","-","H","O">>, <<"A","d"," ","L","e","a","v","e">>, <<"a","d","-","l","e","a","v","e">>,
      <<"A","D","L","E","A","V","E">>, <<"A","D","-","L","e","a","v","e">>, <<"a","d","-"," ","l","e","a","v","e">>, <<"w","e","e","k","-","o","f","f">>,
      <<"W","e","e","k"," ","O","f","f">>, <<"w","e","e","k","o","f","f">>, <<" ","o","f","f">>, <<"O","F","F">>,
      <<"h","o","l","i","d","a","y">>, <<"H","o","l","i","d","a","y"," ">>, <<"l","e","a","v","e">>, <<" ","L","e","a","v","e">>,
      <<"L","E","A","V","E">>, <<"l"," ","e"," ","a"," ","v"," ","e">>, <<"a">>, <<"b">>,
      <<"C">>, <<"g">>, <<"w","o">>, <<"W","o">>,
      <<"h","o">>, <<"H","O">>, <<"W","O">>, <<"s","l">>,
      <<"C","L">>, <<"p"," ","l">>, <<"c","o","\t","-","h","o">>, <<"\t","l","e","a","v","e","\t">>,
      <<"s","t","r","a","sz","e">>, <<"x","-","1">> }

NormAlphabet == {" ", "\t", "a", "A", "o", "f", "-", "sz"}

NormInputs == KnownInputs \cup UNION { [1..k -> NormAlphabet] : k \in 0..MaxStrLen }

\* month_days: first and last representable years, a century that is no leap
\* year, one that is, and ordinary leap and non-leap years.
MonthDaysYears == {1, 1900, 2000, 2023, 2024, 2026, 9999}

\* Cells of data rows.
CELL_EMPTY == <<>>
CELL_SPACE == <<" ">>
CELL_ONE == <<"1">>
CELL_A == <<"a">>
CELL_A_SPACED == <<" ","a"," ">>
CELL_B == <<"b">>
CELL_LEAVE == <<"l","e","a","v","e">>
CELL_WO == <<"w","o">>
NAME_A == <<"a">>
NAME_B == <<"b">>
NAME_C == <<"c">>

FullRow(sl, nm, c6, c7) ==
    <<sl, nm, CELL_EMPTY, CELL_EMPTY, CELL_EMPTY, CELL_EMPTY, c6, c7>>

\* The loader alone: rows of every length from 0 cells up, blank rows,
\* whitespace-only rows, rows without a name, repeated names.
LoadRows ==
    { <<>>, <<CELL_EMPTY>>, <<CELL_SPACE>>, <<CELL_ONE>>,
      <<CELL_EMPTY, CELL_EMPTY>>, <<CELL_ONE, CELL_A>>, <<CELL_EMPTY, CELL_A_SPACED>>,
      <<CELL_EMPTY, CELL_EMPTY, CELL_EMPTY, CELL_EMPTY, CELL_EMPTY, CELL_EMPTY>>,
      <<CELL_ONE, CELL_A, CELL_EMPTY, CELL_EMPTY, CELL_EMPTY, CELL_EMPTY, CELL_LEAVE>>,
      FullRow(CELL_EMPTY, CELL_EMPTY, CELL_EMPTY, CELL_SPACE),
      FullRow(CELL_EMPTY, CELL_EMPTY, CELL_EMPTY, CELL_EMPTY) }
    \cup { FullRow(CELL_ONE, nm, c6, c7) :
             nm \in {CELL_EMPTY, CELL_A, CELL_B},
             c6 \in {CELL_EMPTY, CELL_LEAVE},
             c7 \in {CELL_EMPTY, CELL_SPACE, CELL_WO} }
    \cup { FullRow(CELL_ONE, CELL_A, CELL_LEAVE, CELL_WO) \o <<CELL_EMPTY, CELL_WO>> }

LoadMonths == { <<2026, 1>>, <<2026, 2>> }

OtherMonth(m) == (m % 12) + 1

\* Title rows (cells from index 6 on): none; two date columns; a title with
\* a blank cell, unparsable text, another month's label, a day the month may
\* not have, and the same date under two columns.
LoadTitles(m) ==
    { <<>>,
      <<DayMonLabel(1, m), DayMonLabel(2, m)>>,
      <<BlankLabel, TextLabel, DayMonLabel(3, m), DayMonLabel(1, OtherMonth(m)),
        DayMonLabel(31, m), DayMonLabel(3, m)>> }

\* The whole run: rows of employees a and b with leave cells under the two
\* date columns (days 2 and 3 of the month), a short row and a blank row.
GridRows ==
    { <<>>, <<CELL_ONE, CELL_B>> }
    \cup { FullRow(CELL_ONE, nm, CELL_EMPTY, CELL_EMPTY) : nm \in {CELL_A, CELL_B} }
    \cup { FullRow(CELL_ONE, nm, CELL_LEAVE, CELL_EMPTY) : nm \in {CELL_A, CELL_B} }
    \cup { FullRow(CELL_ONE, CELL_A, CELL_LEAVE, CELL_WO) }

GridTitle(m) == <<DayMonLabel(2, m), DayMonLabel(3, m)>>

\* January 2026 starts on a Thursday, February 2026 on a Sunday, August 2026
\* on a Saturday and spans six Monday-anchored weeks.
GridMonths == { <<2026, 1>>, <<2026, 2>>, <<2026, 8>> }

GOnlySets == { {}, {NAME_A}, {NAME_A, NAME_C} }
BGRotateSets == { {}, {NAME_B}, {NAME_A, NAME_C} }
StartBgArgs == { <<"B">>, <<"g">>, <<"x">> }
AbcOrders == { <<CODE_A, CODE_B, CODE_C>>, <<CODE_C, CODE_A, CODE_B>> }

-----------------------------------------------------------------------------
(* Specifications                                                           *)

IdleLoad ==
    /\ title_row = <<>>
    /\ date_cols = EmptyLeaves
    /\ ndata = 0
    /\ data_rows = <<>>
    /\ row = <<>>
    /\ employees = <<>>
    /\ seen_names = {}
    /\ issues = <<>>

IdleBuild ==
    /\ g_only = {}
    /\ bg_rotate = {}
    /\ abc_order = <<>>
    /\ start_bg_arg = <<>>
    /\ start_bg = <<>>
    /\ days = <<>>
    /\ grid = <<>>
    /\ grid_issues = <<>>

IdleMonthDays == md_cur = 0 /\ md_stop = 0 /\ md_out = <<>>

IdleNorm == nc_x = <<>> /\ nc_once = <<>> /\ nc_twice = <<>>

\* norm_code on its own.
InitNorm ==
    /\ pc = "nc_call"
    /\ year = 2026 /\ month = 1
    /\ raised = "none"
    /\ nc_x \in NormInputs
    /\ nc_once = <<>> /\ nc_twice = <<>>
    /\ IdleLoad /\ IdleBuild /\ IdleMonthDays

NextNorm == Normalize \/ NormalizeAgain

SpecNorm == InitNorm /\ [][NextNorm]_vars

\* month_days on its own.
InitDays ==
    /\ pc = "md_call"
    /\ year \in MonthDaysYears
    /\ month \in 1..12
    /\ raised = "none"
    /\ IdleLoad /\ IdleBuild /\ IdleMonthDays /\ IdleNorm

NextDays == MonthDaysCall \/ MonthDaysStep \/ MonthDaysReturn

SpecDays == InitDays /\ [][NextDays]_vars

\* load_employees_and_leaves on its own.
InitLoad ==
    /\ pc = "load_call"
    /\ \E ym \in LoadMonths : year = ym[1] /\ month = ym[2]
    /\ title_row \in LoadTitles(month)
    /\ ndata \in 0..MaxRows
    /\ date_cols = EmptyLeaves
    /\ data_rows = <<>>
    /\ row = <<>>
    /\ employees = <<>>
    /\ seen_names = {}
    /\ issues = <<>>
    /\ raised = "none"
    /\ IdleBuild /\ IdleMonthDays /\ IdleNorm

NextLoad == LoadOpen \/ (\E r \in LoadRows : LoadRow(r)) \/ LoadReturn

SpecLoad == InitLoad /\ [][NextLoad]_vars

\* The loader, then build_month_grid on the employees it returned, chained as
\* in main(); the arguments of build_month_grid range over what the function
\* accepts (main() itself never passes an empty name set).
Init ==
    /\ pc = "load_call"
    /\ \E ym \in GridMonths : year = ym[1] /\ month = ym[2]
    /\ title_row = GridTitle(month)
    /\ ndata \in 0..MaxGridRows
    /\ date_cols = EmptyLeaves
    /\ data_rows = <<>>
    /\ row = <<>>
    /\ employees = <<>>
    /\ seen_names = {}
    /\ issues = <<>>
    /\ raised = "none"
    /\ IdleBuild /\ IdleMonthDays /\ IdleNorm

Next ==
    \/ LoadOpen
    \/ \E r \in GridRows : LoadRow(r)
    \/ LoadReturn
    \/ \E g \in GOnlySets, bg \in BGRotateSets, sb \in StartBgArgs, abc \in AbcOrders :
          BuildCall(g, bg, sb, abc)
    \/ BuildRow
    \/ BuildReturn

Spec == Init /\ [][Next]_vars

-----------------------------------------------------------------------------
(* Properties                                                               *)

GridReturned == pc = "build_done"

HasLeave(i, j) == days[j] \in DOMAIN employees[i].leaves

\* The week index of the claims, written out from its definition:
\* (mondayOf(D) - mondayOf(first day of month)) / 7 days.
MondayOfDay(d) == d - ((d + 6) % 7)
WeekIndex(j) == (MondayOfDay(days[j]) - MondayOfDay(days[1])) \div 7
OnWeekend(j) == (days[j] + 6) % 7 \in {5, 6}

\* C1: in the returned grid, for every employee and every day D of the month
\* that the employee's leaves mapping has an entry for, the cell (employee, D)
\* is that leave code, whatever the rotation rule and whether or not D is a
\* weekend day.
C1_LeaveOverridesBase ==
    GridReturned =>
        /\ Len(grid) = Len(employees)
        /\ \A i \in 1..Len(employees) :
              /\ Len(grid[i]) = Len(days)
              /\ \A j \in 1..Len(days) :
                    HasLeave(i, j) => grid[i][j] = employees[i].leaves[days[j]]

\* A returned grid with a G-only employee who has a leave on a weekday and a
\* leave on a weekend day, and a B/G employee with a leave.
C1_Witness ==
    /\ GridReturned
    /\ \E i \in 1..Len(employees), j, k \in 1..Len(days) :
          /\ employees[i].name \in g_only
          /\ HasLeave(i, j) /\ ~OnWeekend(j)
          /\ HasLeave(i, k) /\ OnWeekend(k)
    /\ \E i \in 1..Len(employees), j \in 1..Len(days) :
          /\ employees[i].name \in bg_rotate \ g_only
          /\ HasLeave(i, j)

\* C2: for every employee in neither rotation set and every weekday D without
\* a leave entry, the cell is abc_order[relativeWeek mod 3]; so the code is the
\* same on the weekdays of one Monday-anchored week and moves one position on
\* in abc_order, cyclically, across each Monday boundary; and in January 2026
\* with the order A, B, C, Jan 1-2 carry A and Jan 5-9 carry B.
C2_AbcRotation ==
    GridReturned =>
        \A i \in 1..Len(employees) :
            employees[i].name \notin (g_only \cup bg_rotate) =>
                /\ \A j \in 1..Len(days) :
                      (~OnWeekend(j) /\ ~HasLeave(i, j)) =>
                          grid[i][j] = abc_order[(WeekIndex(j) % 3) + 1]
                /\ \A j \in 1..Len(days), k \in 1..Len(days) :
                      ( /\ j < k /\ k - j <= 4
                        /\ (days[j] + 6) % 7 < (days[k] + 6) % 7
                        /\ ~OnWeekend(j) /\ ~HasLeave(i, j)
                        /\ ~OnWeekend(k) /\ ~HasLeave(i, k) )
                      => grid[i][j] = grid[i][k]
                /\ \A j \in 1..(Len(days) - 3) :
                      ( /\ (days[j] + 6) % 7 = 4
                        /\ ~HasLeave(i, j) /\ ~HasLeave(i, j + 3) )
                      => \E p \in 1..3 : /\ grid[i][j] = abc_order[p]
                                         /\ grid[i][j + 3] = abc_order[(p % 3) + 1]
                /\ (year = 2026 /\ month = 1 /\ abc_order = <<CODE_A, CODE_B, CODE_C>>) =>
                      /\ \A j \in 1..2 : ~HasLeave(i, j) => grid[i][j] = CODE_A
                      /\ \A j \in 5..9 : ~HasLeave(i, j) => grid[i][j] = CODE_B

\* January 2026, order A, B, C, an employee in neither set without a leave in
\* the first two weeks: the week index reaches 3, so the cycle wraps to A.
C2_Witness ==
    /\ GridReturned
    /\ year = 2026 /\ month = 1
    /\ abc_order = <<CODE_A, CODE_B, CODE_C>>
    /\ \E i \in 1..Len(employees) :
          /\ employees[i].name \notin (g_only \cup bg_rotate)
          /\ grid[i][2] = CODE_A
          /\ grid[i][5] = CODE_B
          /\ grid[i][12] = CODE_C
          /\ grid[i][19] = CODE_A

\* C3: for every employee in the B/G-rotate set and not in the G-only set and
\* every weekday D without a leave entry: with start side B the cell is B in
\* even weeks and G in odd weeks, with start side G it is G in even weeks and
\* B in odd weeks.
C3_BGRotation ==
    GridReturned =>
        \A i \in 1..Len(employees) :
            (employees[i].name \in bg_rotate /\ employees[i].name \notin g_only) =>
                \A j \in 1..Len(days) :
                    (~OnWeekend(j) /\ ~HasLeave(i, j)) =>
                        /\ Upper(start_bg_arg) = CODE_B =>
                              grid[i][j] = (IF WeekIndex(j) % 2 = 0 THEN CODE_B ELSE CODE_G)
                        /\ Upper(start_bg_arg) = CODE_G =>
                              grid[i][j] = (IF WeekIndex(j) % 2 = 0 THEN CODE_G ELSE CODE_B)

\* A B/G employee under start side G whose first week carries G, the second B
\* and the third G again.
C3_Witness ==
    /\ GridReturned
    /\ Upper(start_bg_arg) = CODE_G
    /\ \E i \in 1..Len(employees) :
          /\ employees[i].name \in bg_rotate \ g_only
          /\ \E j, k, l \in 1..Len(days) :
                /\ WeekIndex(j) = 0 /\ grid[i][j] = CODE_G
                /\ WeekIndex(k) = 1 /\ grid[i][k] = CODE_B
                /\ WeekIndex(l) = 2 /\ grid[i][l] = CODE_G

\* C4: for every employee, in whichever rotation sets, and every Saturday or
\* Sunday D: the cell is WO unless the employee has a leave entry for D, and
\* then it is that leave code.
C4_WeekendIsWO ==
    GridReturned =>
        \A i \in 1..Len(employees), j \in 1..Len(days) :
            OnWeekend(j) =>
                grid[i][j] = (IF HasLeave(i, j) THEN employees[i].leaves[days[j]]
                              ELSE CODE_WO)

\* An employee in both sets with a leave on one weekend day and WO on another,
\* and an employee in neither set.
C4_Witness ==
    /\ GridReturned
    /\ \E i \in 1..Len(employees), j, k \in 1..Len(days) :
          /\ employees[i].name \in g_only \cap bg_rotate
          /\ OnWeekend(j) /\ HasLeave(i, j) /\ grid[i][j] = CODE_LEAVE
          /\ OnWeekend(k) /\ ~HasLeave(i, k) /\ grid[i][k] = CODE_WO
    /\ \E i \in 1..Len(employees) : employees[i].name \notin (g_only \cup bg_rotate)

\* C5: for every valid (year, month), month_days returns: it does not raise,
\* and the list it returns starts at day 1, is as long as the month has days,
\* and each element is the day after its predecessor.
C5_MonthDaysEveryValidMonth ==
    /\ pc # "raised"
    /\ pc = "md_done" =>
          /\ Len(days) = days_in_month(year, month)
          /\ days[1] = MkDate(year, month, 1)
          /\ days[Len(days)] = MkDate(year, month, days_in_month(year, month))
          /\ \A j \in 2..Len(days) : days[j] = days[j - 1] + 1

\* C6: norm_code applied to its own result gives that result again, and it
\* maps the empty string to the empty string.
C6_NormIdempotent ==
    /\ pc = "nc_twice" => nc_twice = nc_once
    /\ (pc # "nc_call" /\ nc_x = <<>>) => nc_once = <<>>

\* A spaced lower-case spelling of the comp-off code, normalised twice.
C6_Witness ==
    /\ pc = "nc_twice"
    /\ nc_x = <<"c","o"," ","-"," ","h","o">>
    /\ nc_once = CODE_COHO
    /\ nc_twice = CODE_COHO

WarningsNaming(n) ==
    { k \in 1..Len(grid_issues) :
        grid_issues[k].level = "WARNING" /\ grid_issues[k].name = n }

GOnlyWarningsNaming(n) ==
    { k \in WarningsNaming(n) : grid_issues[k].msg = "G-only name not in CSV" }

\* C7 as stated: every G-only name that is no employee's name has exactly one
\* WARNING naming it among the diagnostics of build_month_grid, and the grid
\* has one row per employee.
C7_ExactlyOneWarning ==
    GridReturned =>
        /\ \A n \in g_only \ EmpNames(employees) : Cardinality(WarningsNaming(n)) = 1
        /\ Len(grid) = Len(employees)

\* C7 amended: every G-only name that is no employee's name has exactly one
\* "G-only name not in CSV" WARNING naming it; the WARNINGs naming it are that
\* one, and one more exactly when the name is in the B/G-rotate set too; the
\* grid has one row per employee, none for that name.
C7_OneWarningPerSet ==
    GridReturned =>
        /\ \A n \in g_only \ EmpNames(employees) :
              /\ Cardinality(GOnlyWarningsNaming(n)) = 1
              /\ Cardinality(WarningsNaming(n)) = 1 + (IF n \in bg_rotate THEN 1 ELSE 0)
        /\ Len(grid) = Len(employees)
        /\ \A i \in 1..Len(grid) : employees[i].name \notin g_only \ EmpNames(employees)

\* A name in both sets that no employee has, next to employees that are there.
C7_Witness ==
    /\ GridReturned
    /\ Len(employees) = 2
    /\ \E n \in (g_only \cap bg_rotate) \ EmpNames(employees) :
          Cardinality(WarningsNaming(n)) = 2
    /\ \E n \in g_only : n \in EmpNames(employees)

Loading == pc \in {"load_rows", "load_done"}

Admitted(r) == Len(r) >= 2 /\ Strip(r[2]) # <<>>

AdmittedRows == SelectSeq(data_rows, Admitted)

DuplicateWarnings ==
    SelectSeq(issues, LAMBDA d : d.level = "WARNING" /\ d.msg = "Duplicate associate name")

\* The rows, by position in data_rows, whose name an earlier row has.
RepeatedAt ==
    { k \in 1..Len(data_rows) :
        /\ Admitted(data_rows[k])
        /\ \E h \in 1..(k - 1) :
              /\ Admitted(data_rows[h])
              /\ Strip(data_rows[h][2]) = Strip(data_rows[k][2]) }

\* C8: the employee records are the rows with a non-empty name, one each, in
\* input order, repeated names included; each second or later occurrence of a
\* name has exactly one Duplicate WARNING, a first occurrence none; so the
\* number of Duplicate WARNINGs is the number of records minus the number of
\* distinct names.
C8_DuplicatesKeptAndFlagged ==
    Loading =>
        /\ Len(employees) = Len(AdmittedRows)
        /\ \A i \in 1..Len(employees) : employees[i].name = Strip(AdmittedRows[i][2])
        /\ \A k \in 1..Len(data_rows) :
              Cardinality({ i \in 1..Len(DuplicateWarnings) :
                              DuplicateWarnings[i].row = k + 2 })
                = (IF k \in RepeatedAt THEN 1 ELSE 0)
        /\ Len(DuplicateWarnings) = Cardinality(RepeatedAt)
        /\ Len(DuplicateWarnings)
             = Len(employees) - Cardinality(EmpNames(employees))

\* Two rows with the same name, spelled with and without surrounding spaces.
C8_Witness ==
    /\ pc = "load_done"
    /\ Len(employees) = 2
    /\ employees[1].name = employees[2].name
    /\ data_rows[1][2] # data_rows[2][2]
    /\ Len(DuplicateWarnings) = 1
    /\ DuplicateWarnings[1].row = 4

NoText(r) == \A i \in 1..Len(r) : Strip(r[i]) = <<>>

\* C9: a data row in which no cell holds text (each cell empty or whitespace
\* only, any length) leaves no diagnostic of any level and no employee record.
C9_BlankRowsSilent ==
    Loading =>
        \A k \in 1..Len(data_rows) :
            NoText(data_rows[k]) =>
                /\ \A i \in 1..Len(issues) : issues[i].row # k + 2
                /\ ~Admitted(data_rows[k])

LastRow == data_rows[Len(data_rows)]

IndicesRead == (0..5) \cup DOMAIN date_cols

\* C10: reading a data row never goes past the end of the (padded) row: no
\* IndexError, every index read (0..5 and every date column) lies below the
\* length of the row as read, and a leave entry of the record comes only from
\* a non-empty cell the row really has.
C10_NoOutOfRangeRead ==
    /\ raised # "IndexError"
    /\ (Loading /\ data_rows # <<>> /\ ~NoCellTruthy(LastRow)) =>
          /\ \A i \in IndicesRead : i < Len(row)
          /\ \A i \in 1..Len(row) :
                row[i] = (IF i <= Len(LastRow) THEN LastRow[i] ELSE EmptyStr)
          /\ Admitted(LastRow) =>
                \A d \in DOMAIN employees[Len(employees)].leaves :
                    \E ci \in DOMAIN date_cols :
                        /\ date_cols[ci] = d
                        /\ ci < Len(LastRow)
                        /\ Strip(LastRow[ci + 1]) # <<>>

\* A two-cell row with a name, read under a title whose last date column is
\* at index 10 or more: padded, admitted, no leave entry.
C10_Witness ==
    /\ Loading
    /\ raised = "none"
    /\ data_rows # <<>>
    /\ Len(LastRow) = 2
    /\ Admitted(LastRow)
    /\ \E ci \in DOMAIN date_cols : ci >= 10
    /\ Len(row) > 10
    /\ employees # <<>>
    /\ DOMAIN employees[Len(employees)].leaves = {}

====
